---- MODULE Spec2Model ----
(***************************************************************************)
(* A model of mdrip's managed shell (package shell, ManagedShell): the      *)
(* lifecycle NewManagedShell / Start / Execute / Stop, the three pipes to   *)
(* the child interpreter, and the framing of one command's output by the   *)
(* delimiter echo.  Text is modelled as sequences of one-character         *)
(* strings, so that strings.Contains, strings.Replace and strings.TrimSpace *)
(* are computed as the Go library computes them.                           *)
(***************************************************************************)
EXTENDS Naturals, Sequences, FiniteSets, TLC

VARIABLES
    ms,        \* the *ManagedShell the caller holds: NoInstance, or its four fields
    crashed,   \* TRUE once a call has panicked (nil dereference); the program is gone
    ret,       \* what the last finished call returned
    epc,       \* where the Execute in flight is: "idle", "drain" or "stderr"
    ecmd,      \* the command of the Execute in flight (or of the last one)
    stdoutBuf, \* Execute's stdoutBuf
    stderrBuf, \* the bytes io.ReadAll(ms.stderr) has collected so far
    child,     \* the child interpreter process
    inPipe,    \* lines written to the child's stdin and not yet read by it
    outPipe,   \* bytes the child wrote to stdout, not yet read by the parent
    errPipe,   \* bytes the child wrote to stderr, not yet read by the parent
    fds,       \* the parent's ends of the pipes: open or closed
    hist,      \* the Execute calls that returned after draining, oldest first
    web,       \* the web server: whether it exists, and its run-block requests
    src,       \* the line scanner's source: what it still holds, Close calls
    scan,      \* the line scanner's background task
    chan,      \* the line scanner's output channel
    recv,      \* what the consumer of the channel has received
    lab        \* two label lists and what Equals returned for them

\* The variables of the managed shell, of the web layer, of the line scanner
\* and of the label lists; each part of the program leaves the others'
\* variables alone.
shellVars == <<ms, crashed, ret, epc, ecmd, stdoutBuf, stderrBuf, child, inPipe,
               outPipe, errPipe, fds, hist>>
webVars == <<web>>
scanVars == <<src, scan, chan, recv>>
labelVars == <<lab>>

vars == <<shellVars, webVars, scanVars, labelVars>>

----------------------------------------------------------------------------
(* Bounds of the model. *)

\* How many Execute calls the caller issues on one instance.
MaxCalls == 2

----------------------------------------------------------------------------
(* Text. *)

NL == "\n"

\* delimiter := "END_OF_COMMAND_OUTPUT_DELIMITER"
delimiter ==
    <<"E","N","D","_","O","F","_","C","O","M","M","A","N","D","_",
      "O","U","T","P","U","T","_","D","E","L","I","M","I","T","E","R">>

\* The shell line Execute appends to the command: echo "<delimiter>"
echoLine == <<"e","c","h","o"," ","\"">> \o delimiter \o <<"\"">>

\* The size of the buffer the stdout reader reads into.
ReadBufSize == 1024

Min(a, b) == IF a <= b THEN a ELSE b

\* unicode.IsSpace for the characters the model uses.
IsSpace(c) == c \in {" ", NL, "\t", "\r"}

\* s has t as a prefix at position i (1-based).
MatchAt(s, t, i) ==
    /\ i + Len(t) - 1 <= Len(s)
    /\ \A k \in 1..Len(t) : s[i + k - 1] = t[k]

\* strings.Contains(s, t)
Contains(s, t) == \E i \in 1..(Len(s) + 1) : MatchAt(s, t, i)

RECURSIVE ReplaceFrom(_, _, _)
ReplaceFrom(s, old, i) ==
    IF i > Len(s) THEN <<>>
    ELSE IF MatchAt(s, old, i) THEN ReplaceFrom(s, old, i + Len(old))
    ELSE <<s[i]>> \o ReplaceFrom(s, old, i + 1)

\* strings.Replace(s, old, "", -1) for a non-empty old: every non-overlapping
\* occurrence, found left to right, is removed.
ReplaceAll(s, old) == ReplaceFrom(s, old, 1)

RECURSIVE TrimLeft(_)
TrimLeft(s) ==
    IF s # <<>> /\ IsSpace(Head(s)) THEN TrimLeft(Tail(s)) ELSE s

RECURSIVE TrimRight(_)
TrimRight(s) ==
    IF s # <<>> /\ IsSpace(s[Len(s)]) THEN TrimRight(SubSeq(s, 1, Len(s) - 1)) ELSE s

\* strings.TrimSpace(s)
TrimSpace(s) == TrimRight(TrimLeft(s))

\* Execute, lines 117-122: what is returned as stdout for a drained buffer.
CleanStdout(buf) ==
    TrimSpace(ReplaceAll(ReplaceAll(buf, delimiter \o <<NL>>), echoLine \o <<NL>>))

----------------------------------------------------------------------------
(* The interpreter paths and the commands the caller uses. *)

\* "" is refused by NewManagedShell; "/bin/bash" can be launched; the third
\* names no file, so launching it fails.
\* The byte 0xFF, which is no valid UTF-8, as one character of text.
BadByte == "\\377"

ShellPaths == {"", "/bin/bash", "/nonexistent/shell"}

Launchable(path) == path = "/bin/bash"

\* The line Execute appends after the command, as the shell reads it.
echoCommand == "echo \"END_OF_COMMAND_OUTPUT_DELIMITER\""

Commands ==
    {"echo hello", ">&2 echo err", ">&2 echo err; exit 1", "exit",
     "echo hello; exit", "exec 2>&-", "sleep 10",
     "echo END_OF_COMMAND_OUTPUT_DELIMITER"}

\* The commands of the runs that look at a command printing the delimiter
\* on a shell whose Execute returns (its stderr is closed).
FramingCommands ==
    {"echo END_OF_COMMAND_OUTPUT_DELIMITER; exec 2>&-", "echo hello",
     ">&2 echo err; exit 1"}

\* What the shell does with one line of input: the bytes it writes to its
\* stdout and stderr, and what it does next ("next": read the next line;
\* "exit0"/"exit1": the shell exits; "closeErr": the shell closes its own
\* stderr and reads on; "hang": the command does not finish).
ShellRun(line) ==
    CASE line = "echo hello" ->
            [out |-> <<"h","e","l","l","o",NL>>, err |-> <<>>, fin |-> "next"]
      [] line = ">&2 echo err" ->
            [out |-> <<>>, err |-> <<"e","r","r",NL>>, fin |-> "next"]
      [] line = ">&2 echo err; exit 1" ->
            [out |-> <<>>, err |-> <<"e","r","r",NL>>, fin |-> "exit1"]
      [] line = "exit" ->
            [out |-> <<>>, err |-> <<>>, fin |-> "exit0"]
      [] line = "echo hello; exit" ->
            [out |-> <<"h","e","l","l","o",NL>>, err |-> <<>>, fin |-> "exit0"]
      [] line = "exec 2>&-" ->
            [out |-> <<>>, err |-> <<>>, fin |-> "closeErr"]
      [] line = "sleep 10" ->
            [out |-> <<>>, err |-> <<>>, fin |-> "hang"]
      [] line = "echo END_OF_COMMAND_OUTPUT_DELIMITER" ->
            [out |-> delimiter \o <<NL>>, err |-> <<>>, fin |-> "next"]
      [] line = "echo END_OF_COMMAND_OUTPUT_DELIMITER; exec 2>&-" ->
            [out |-> delimiter \o <<NL>>, err |-> <<>>, fin |-> "closeErr"]
      [] line = echoCommand ->
            [out |-> delimiter \o <<NL>>, err |-> <<>>, fin |-> "next"]
      [] line = "printf '\\377'" ->
            [out |-> <<BadByte>>, err |-> <<>>, fin |-> "next"]

----------------------------------------------------------------------------
(* The instance. *)

\* A nil *exec.Cmd.
NilCmd ==
    [nil |-> TRUE, Path |-> "", Stdin |-> FALSE, Stdout |-> FALSE,
     Stderr |-> FALSE, Process |-> FALSE]

\* exec.Command(path): Stdin, Stdout, Stderr and Process are nil.
ExecCommand(path) ==
    [nil |-> FALSE, Path |-> path, Stdin |-> FALSE, Stdout |-> FALSE,
     Stderr |-> FALSE, Process |-> FALSE]

\* The struct ManagedShell; stdin, stdout, stderr are TRUE when non-nil.
\* made is FALSE while the caller holds no instance.
ManagedShell(cmd) ==
    [made |-> TRUE, cmd |-> cmd, stdin |-> FALSE, stdout |-> FALSE, stderr |-> FALSE]

NoInstance ==
    [made |-> FALSE, cmd |-> NilCmd, stdin |-> FALSE, stdout |-> FALSE, stderr |-> FALSE]

\* What a call returned.
Returned(op, out, err, error) ==
    [op |-> op, stdout |-> out, stderr |-> err, err |-> error]

NoChild ==
    [st |-> "none", errOpen |-> FALSE, busy |-> FALSE,
     pendOut |-> <<>>, pendErr |-> <<>>, fin |-> "next"]

\* The run-block requests the model follows, numbered in arrival order.
MaxRequests == 2
Requests == 1..MaxRequests

\* A request that has not arrived: pc is "new" until the handler is entered,
\* "drain" and "stderr" while its Execute runs, "done" once it has answered.
\* method and bodyOk are the request's method and whether its body can be
\* read, execs counts the Execute calls the handler made, out/err/execErr
\* are what Execute returned, status and body are the response.
NoRequest ==
    [pc |-> "new", method |-> "", bodyOk |-> FALSE,
     buf |-> <<>>, errBuf |-> <<>>, execs |-> 0,
     out |-> <<>>, err |-> <<>>, execErr |-> "nil",
     status |-> 0, body |-> [fields |-> {}, stdout |-> <<>>, stderr |-> <<>>]]

\* No Server value yet.
NoServer == [server |-> "none", req |-> [h \in Requests |-> NoRequest]]

\* No scan yet: no source handed over, no task, an open and empty channel.
NoSource ==
    [kind |-> "none", all |-> <<>>, rest |-> <<>>, ready |-> FALSE,
     reading |-> FALSE, waited |-> 0, closes |-> 0]
NoScan ==
    [pc |-> "unstarted", lineBuf |-> <<>>, pending |-> <<>>, after |-> "read",
     stallCount |-> 0, clock |-> 0, outcome |-> "none",
     lastRead |-> "none", elapsed |-> 0]
NoChannel == [q |-> <<>>, closes |-> 0]
NothingReceived == [items |-> <<>>, sawClose |-> FALSE]

\* No label lists yet, and no call of Equals.
NoLabels ==
    [lst |-> <<>>, other |-> <<>>, called |-> FALSE, equals |-> FALSE,
     calledBack |-> FALSE, equalsBack |-> FALSE]

Init ==
    /\ lab = NoLabels
    /\ src = NoSource
    /\ scan = NoScan
    /\ chan = NoChannel
    /\ recv = NothingReceived
    /\ web = NoServer
    /\ ms = NoInstance
    /\ crashed = FALSE
    /\ ret = Returned("none", <<>>, <<>>, "nil")
    /\ epc = "idle"
    /\ ecmd = ""
    /\ stdoutBuf = <<>>
    /\ stderrBuf = <<>>
    /\ child = NoChild
    /\ inPipe = <<>>
    /\ outPipe = <<>>
    /\ errPipe = <<>>
    /\ fds = [stdin |-> FALSE, rd |-> FALSE]
    /\ hist = <<>>

\* The caller issues one call at a time, on an instance it holds, in a
\* program that has not panicked.
CallerReady == ms.made /\ ~crashed /\ epc = "idle"

\* A faulty NewManagedShell: the empty path is not refused.
NewManagedShellUnchecked(shellPath) ==
    /\ ~ms.made /\ ~crashed
    /\ ms' = ManagedShell(ExecCommand(shellPath))
    /\ ret' = Returned("NewManagedShell", <<>>, <<>>, "nil")
    /\ UNCHANGED <<crashed, epc, ecmd, stdoutBuf, stderrBuf, child, inPipe,
                   outPipe, errPipe, fds, hist>>
    /\ UNCHANGED <<webVars, scanVars, labelVars>>

\* NewManagedShell(shellPath)
NewManagedShell(shellPath) ==
    /\ ~ms.made /\ ~crashed
    /\ IF shellPath = ""
         THEN /\ ret' = Returned("NewManagedShell", <<>>, <<>>, "InvalidArgument")
              /\ UNCHANGED ms
         ELSE /\ ms' = ManagedShell(ExecCommand(shellPath))
              /\ ret' = Returned("NewManagedShell", <<>>, <<>>, "nil")
    /\ UNCHANGED <<crashed, epc, ecmd, stdoutBuf, stderrBuf, child, inPipe,
                   outPipe, errPipe, fds, hist>>
    /\ UNCHANGED <<webVars, scanVars, labelVars>>

----------------------------------------------------------------------------
(* Start. *)

\* What the environment can make fail in one Start: nothing, one of the three
\* os.Pipe calls, or the launch of the process.
StartFaults == {"none", "stdin", "stdout", "stderr", "launch"}

\* A faulty Start: the stderr pipe is acquired but not kept in ms.stderr.
StartStepsDropsStderr(m, fault) ==
    IF m.cmd.Stdin \/ m.cmd.Process \/ fault = "stdin"
    THEN [ms |-> [m EXCEPT !.stdin = FALSE], err |-> "StartFailure", launched |-> FALSE]
    ELSE LET m1 == [m EXCEPT !.stdin = TRUE, !.cmd.Stdin = TRUE] IN
    IF m1.cmd.Stdout \/ m1.cmd.Process \/ fault = "stdout"
    THEN [ms |-> [m1 EXCEPT !.stdout = FALSE], err |-> "StartFailure", launched |-> FALSE]
    ELSE LET m2 == [m1 EXCEPT !.stdout = TRUE, !.cmd.Stdout = TRUE] IN
    IF m2.cmd.Stderr \/ m2.cmd.Process \/ fault = "stderr"
    THEN [ms |-> [m2 EXCEPT !.stderr = FALSE], err |-> "StartFailure", launched |-> FALSE]
    ELSE LET m3 == [m2 EXCEPT !.cmd.Stderr = TRUE] IN
    IF m3.cmd.Process \/ ~Launchable(m3.cmd.Path) \/ fault = "launch"
    THEN [ms |-> m3, err |-> "StartFailure", launched |-> FALSE]
    ELSE [ms |-> [m3 EXCEPT !.cmd.Process = TRUE], err |-> "nil", launched |-> TRUE]

\* Start, lines 39-58, on a non-nil cmd.  cmd.StdinPipe, StdoutPipe and
\* StderrPipe fail when the stream of the command is already set or the
\* process has started, and their (nil) result is assigned to the field
\* before the error is looked at.  cmd.Start fails when the process has
\* already started or the path cannot be launched.
StartSteps(m, fault) ==
    IF m.cmd.Stdin \/ m.cmd.Process \/ fault = "stdin"
    THEN [ms |-> [m EXCEPT !.stdin = FALSE], err |-> "StartFailure", launched |-> FALSE]
    ELSE LET m1 == [m EXCEPT !.stdin = TRUE, !.cmd.Stdin = TRUE] IN
    IF m1.cmd.Stdout \/ m1.cmd.Process \/ fault = "stdout"
    THEN [ms |-> [m1 EXCEPT !.stdout = FALSE], err |-> "StartFailure", launched |-> FALSE]
    ELSE LET m2 == [m1 EXCEPT !.stdout = TRUE, !.cmd.Stdout = TRUE] IN
    IF m2.cmd.Stderr \/ m2.cmd.Process \/ fault = "stderr"
    THEN [ms |-> [m2 EXCEPT !.stderr = FALSE], err |-> "StartFailure", launched |-> FALSE]
    ELSE LET m3 == [m2 EXCEPT !.stderr = TRUE, !.cmd.Stderr = TRUE] IN
    IF m3.cmd.Process \/ ~Launchable(m3.cmd.Path) \/ fault = "launch"
    THEN [ms |-> m3, err |-> "StartFailure", launched |-> FALSE]
    ELSE [ms |-> [m3 EXCEPT !.cmd.Process = TRUE], err |-> "nil", launched |-> TRUE]

\* Start: ms.cmd.StdinPipe() on a nil ms.cmd dereferences nil and panics.
StartResult(m, fault) ==
    IF m.cmd.nil
    THEN [ms |-> m, err |-> "panic", launched |-> FALSE]
    ELSE StartSteps(m, fault)

\* The child right after its launch: running, reading its stdin.
FreshChild ==
    [st |-> "alive", errOpen |-> TRUE, busy |-> FALSE,
     pendOut |-> <<>>, pendErr |-> <<>>, fin |-> "next"]

Start(fault) ==
    /\ CallerReady
    /\ LET r == StartResult(ms, fault) IN
         /\ ms' = r.ms
         /\ crashed' = (r.err = "panic")
         /\ ret' = Returned("Start", <<>>, <<>>, r.err)
         /\ IF r.launched
              THEN /\ child' = FreshChild
                   /\ fds' = [stdin |-> TRUE, rd |-> TRUE]
              ELSE UNCHANGED <<child, fds>>
    /\ UNCHANGED <<epc, ecmd, stdoutBuf, stderrBuf, inPipe, outPipe, errPipe, hist>>
    /\ UNCHANGED <<webVars, scanVars, labelVars>>

----------------------------------------------------------------------------
(* Execute. *)

\* A faulty guard for Execute: only the cmd is looked at.
NotStartedCmdOnly(m) == m.cmd.nil

\* Execute, line 64: ms.cmd == nil || ms.cmd.Process == nil
NotStarted(m) == m.cmd.nil \/ ~m.cmd.Process

\* Execute, line 69: the two lines written to the child's stdin,
\* command + "\n" + echo "<delimiter>" + "\n".
FullCommand(command) == <<command, echoCommand>>

\* Execute up to the start of the stdout reader, lines 64-80.  The write
\* fails on a closed stdin and on a pipe whose reader, the child, is gone.
Execute(command) ==
    /\ CallerReady
    /\ Len(hist) < MaxCalls
    /\ IF NotStarted(ms)
         THEN /\ ret' = Returned("Execute", <<>>, <<>>, "NotStarted")
              /\ UNCHANGED <<crashed, epc, ecmd, stdoutBuf, stderrBuf, inPipe>>
         ELSE IF ~ms.stdin
         THEN /\ ret' = Returned("Execute", <<>>, <<>>, "panic")
              /\ crashed' = TRUE
              /\ UNCHANGED <<epc, ecmd, stdoutBuf, stderrBuf, inPipe>>
         ELSE IF ~fds.stdin \/ child.st # "alive"
         THEN /\ ret' = Returned("Execute", <<>>, <<>>, "WriteFailure")
              /\ UNCHANGED <<crashed, epc, ecmd, stdoutBuf, stderrBuf, inPipe>>
         ELSE /\ inPipe' = inPipe \o FullCommand(command)
              /\ epc' = "drain"
              /\ ecmd' = command
              /\ stdoutBuf' = <<>>
              /\ stderrBuf' = <<>>
              /\ UNCHANGED <<crashed, ret>>
    /\ UNCHANGED <<ms, child, outPipe, errPipe, fds, hist>>
    /\ UNCHANGED <<webVars, scanVars, labelVars>>

\* A faulty stdout reader: the bytes of the pipe that a Read does not return
\* are lost.
DrainReadLosesBytes ==
    /\ epc = "drain" /\ ~crashed
    /\ fds.rd /\ outPipe # <<>>
    /\ \E n \in 1..Min(Len(outPipe), ReadBufSize) :
         stdoutBuf' = stdoutBuf \o SubSeq(outPipe, 1, n)
    /\ outPipe' = <<>>
    /\ epc' = IF Contains(stdoutBuf', delimiter) THEN "stderr" ELSE "drain"
    /\ UNCHANGED <<ms, crashed, ret, ecmd, stderrBuf, child, inPipe, errPipe, fds, hist>>
    /\ UNCHANGED <<webVars, scanVars, labelVars>>

\* A faulty stdout reader: it is not collected and goes on reading after the
\* delimiter was seen and after Execute returned.
DrainReadLingers ==
    /\ ~crashed
    /\ ms.made
    /\ hist # <<>> \/ epc # "idle"
    /\ fds.rd /\ outPipe # <<>>
    /\ \E n \in 1..Min(Len(outPipe), ReadBufSize) :
         /\ stdoutBuf' = stdoutBuf \o SubSeq(outPipe, 1, n)
         /\ outPipe' = SubSeq(outPipe, n + 1, Len(outPipe))
    /\ epc' = IF epc = "drain" /\ Contains(stdoutBuf', delimiter)
                THEN "stderr" ELSE epc
    /\ UNCHANGED <<ms, crashed, ret, ecmd, stderrBuf, child, inPipe, errPipe, fds, hist>>
    /\ UNCHANGED <<webVars, scanVars, labelVars>>

\* The stdout reader, lines 83-95: one Read that returns n bytes; the reader
\* ends when the buffer contains the delimiter.
DrainRead ==
    /\ epc = "drain" /\ ~crashed
    /\ fds.rd /\ outPipe # <<>>
    /\ \E n \in 1..Min(Len(outPipe), ReadBufSize) :
         /\ stdoutBuf' = stdoutBuf \o SubSeq(outPipe, 1, n)
         /\ outPipe' = SubSeq(outPipe, n + 1, Len(outPipe))
    /\ epc' = IF Contains(stdoutBuf', delimiter) THEN "stderr" ELSE "drain"
    /\ UNCHANGED <<ms, crashed, ret, ecmd, stderrBuf, child, inPipe, errPipe, fds, hist>>
    /\ UNCHANGED <<webVars, scanVars, labelVars>>

\* A faulty end of the stdout reader: Execute gives up with an error and
\* without the bytes read so far.
DrainEndAborts ==
    /\ epc = "drain" /\ ~crashed
    /\ \/ ~fds.rd
       \/ outPipe = <<>> /\ child.st # "alive"
    /\ epc' = "idle"
    /\ ret' = Returned("Execute", <<>>, <<>>, "ReadFailure")
    /\ UNCHANGED <<ms, crashed, ecmd, stdoutBuf, stderrBuf, child, inPipe,
                   outPipe, errPipe, fds, hist>>
    /\ UNCHANGED <<webVars, scanVars, labelVars>>

\* The stdout reader, lines 84-90: Read returns an error, io.EOF once the
\* child is gone and the pipe is empty, another error on a closed file; the
\* reader ends either way.
DrainEnd ==
    /\ epc = "drain" /\ ~crashed
    /\ \/ ~fds.rd
       \/ outPipe = <<>> /\ child.st # "alive"
    /\ epc' = "stderr"
    /\ UNCHANGED <<ms, crashed, ret, ecmd, stdoutBuf, stderrBuf, child, inPipe,
                   outPipe, errPipe, fds, hist>>
    /\ UNCHANGED <<webVars, scanVars, labelVars>>

\* io.ReadAll(ms.stderr), line 109: one Read that returns data.
StderrRead ==
    /\ epc = "stderr" /\ ~crashed
    /\ fds.rd /\ errPipe # <<>>
    /\ stderrBuf' = stderrBuf \o errPipe
    /\ errPipe' = <<>>
    /\ UNCHANGED <<ms, crashed, ret, epc, ecmd, stdoutBuf, child, inPipe, outPipe, fds, hist>>
    /\ UNCHANGED <<webVars, scanVars, labelVars>>

\* io.ReadAll can end: the stream is at its end (no byte is left and no
\* writer holds it open) or the file is closed.
StderrAtEnd ==
    \/ ~fds.rd
    \/ errPipe = <<>> /\ (child.st # "alive" \/ ~child.errOpen)

\* Execute, lines 109-125: io.ReadAll returns, the buffer is cleaned, and
\* Execute returns with a nil error; its local buffers are gone.
ExecuteReturn ==
    /\ epc = "stderr" /\ ~crashed
    /\ StderrAtEnd
    /\ ret' = Returned("Execute", CleanStdout(stdoutBuf), stderrBuf, "nil")
    /\ hist' = Append(hist, [cmd |-> ecmd, stdout |-> CleanStdout(stdoutBuf),
                             stderr |-> stderrBuf])
    /\ epc' = "idle"
    /\ ecmd' = ""
    /\ stdoutBuf' = <<>>
    /\ stderrBuf' = <<>>
    /\ UNCHANGED <<ms, crashed, child, inPipe, outPipe, errPipe, fds>>
    /\ UNCHANGED <<webVars, scanVars, labelVars>>

\* TestManagedShell_Execute_LongRunningCommand_AndStop, lines 332-341: the
\* command "sleep 10" is written straight to ms.stdin of a started shell,
\* without Execute and without the delimiter echo.
WriteLongRunning ==
    /\ CallerReady
    /\ ~NotStarted(ms) /\ ms.stdin
    /\ fds.stdin /\ child.st = "alive"
    /\ inPipe = <<>> /\ ~child.busy
    /\ inPipe' = <<"sleep 10">>
    /\ ret' = Returned("Write", <<>>, <<>>, "nil")
    /\ UNCHANGED <<ms, crashed, epc, ecmd, stdoutBuf, stderrBuf, child, outPipe,
                   errPipe, fds, hist>>
    /\ UNCHANGED <<webVars, scanVars, labelVars>>

----------------------------------------------------------------------------
(* Stop. *)

\* A faulty guard for Stop: only the cmd is looked at.
NotRunningCmdOnly(m) == m.cmd.nil

\* Stop, line 130: ms.cmd == nil || ms.cmd.Process == nil
NotRunning(m) == m.cmd.nil \/ ~m.cmd.Process

\* A faulty end of Stop: a fresh command is left behind instead of nil.
StoppedWithFreshCmd(m) ==
    [m EXCEPT !.stdin = FALSE, !.stdout = FALSE, !.stderr = FALSE,
              !.cmd = ExecCommand(m.cmd.Path)]

\* Stop, lines 168-171: the four fields are set to nil.
Stopped(m) ==
    [m EXCEPT !.stdin = FALSE, !.stdout = FALSE, !.stderr = FALSE, !.cmd = NilCmd]

\* A faulty reading of the wait error: an *exec.ExitError is not told apart
\* from the other errors.
WaitErrorNoExitCheck(st, osFails) ==
    IF osFails THEN "other"
    ELSE IF st = "exit0" THEN "nil"
    ELSE "other"

\* ms.cmd.Wait(), line 149, after Process.Kill(): nil for a child that had
\* exited with status 0 before the kill, an *exec.ExitError for a killed
\* child or one that exited with another status, and another error when the
\* wait of the operating system fails.
WaitError(st, osFails) ==
    IF osFails THEN "other"
    ELSE IF st = "exit0" THEN "nil"
    ELSE "ExitError"

\* A faulty Stop: the process is not killed.
NotKilled(c) == c

\* ms.cmd.Process.Kill(), line 142: a child that still runs is killed, in
\* the middle of whatever it was doing; one that has exited is left as it is.
Killed(c) ==
    [c EXCEPT !.st = IF @ = "alive" THEN "killed" ELSE @,
              !.busy = FALSE, !.pendOut = <<>>, !.pendErr = <<>>]

\* Stop.  A nil ms.stdin with a started process makes ms.stdin.Close() panic.
\* Otherwise stdin is closed, the child is killed if it still runs, and Wait
\* closes the parent's ends of the stdout and stderr pipes.
StopSteps(osFails) ==
    /\ IF NotRunning(ms)
         THEN /\ ret' = Returned("Stop", <<>>, <<>>, "nil")
              /\ UNCHANGED <<ms, crashed, child, inPipe, outPipe, errPipe, fds>>
         ELSE IF ~ms.stdin
         THEN /\ ret' = Returned("Stop", <<>>, <<>>, "panic")
              /\ crashed' = TRUE
              /\ UNCHANGED <<ms, child, inPipe, outPipe, errPipe, fds>>
         ELSE /\ fds' = [stdin |-> FALSE, rd |-> FALSE]
              /\ child' = Killed(child)
              /\ inPipe' = <<>>
              /\ outPipe' = <<>>
              /\ errPipe' = <<>>
              /\ UNCHANGED crashed
              /\ IF WaitError(child'.st, osFails) = "other"
                   THEN /\ ret' = Returned("Stop", <<>>, <<>>, "ShutdownFailure")
                        /\ UNCHANGED ms
                   ELSE /\ ret' = Returned("Stop", <<>>, <<>>, "nil")
                        /\ ms' = Stopped(ms)
    /\ UNCHANGED <<epc, ecmd, stdoutBuf, stderrBuf, hist>>
    /\ UNCHANGED <<webVars, scanVars, labelVars>>

\* Stop called by a caller that has no other call in progress.
Stop(osFails) == CallerReady /\ StopSteps(osFails)

----------------------------------------------------------------------------
(* Stop from a second goroutine while an Execute is in progress.  Nothing in
   ManagedShell orders the two: Stop closes the pipes and sets the fields to
   nil while Execute's reader and Execute itself still use ms.stdout and
   ms.stderr. *)

\* Stop, lines 129-173, entered while Execute is between line 71 and its
\* return.
StopDuringExecute(osFails) ==
    /\ ms.made /\ ~crashed /\ epc # "idle"
    /\ StopSteps(osFails)

\* The stdout reader, line 84: the next ms.stdout.Read(buf) is called after
\* Stop set ms.stdout to nil; a method call on a nil interface panics.  (A
\* Read that was already blocked when Stop closed the pipe returns an error
\* instead: DrainEnd.)
DrainOnNil ==
    /\ epc = "drain" /\ ~crashed
    /\ ~ms.stdout
    /\ crashed' = TRUE
    /\ ret' = Returned("Execute", <<>>, <<>>, "panic")
    /\ UNCHANGED <<ms, epc, ecmd, stdoutBuf, stderrBuf, child, inPipe, outPipe,
                   errPipe, fds, hist>>
    /\ UNCHANGED <<webVars, scanVars, labelVars>>

\* Execute, line 109: io.ReadAll(ms.stderr) is called after Stop set
\* ms.stderr to nil and panics on the nil reader.
ReadAllOnNil ==
    /\ epc = "stderr" /\ ~crashed
    /\ ~ms.stderr
    /\ crashed' = TRUE
    /\ ret' = Returned("Execute", <<>>, <<>>, "panic")
    /\ UNCHANGED <<ms, epc, ecmd, stdoutBuf, stderrBuf, child, inPipe, outPipe,
                   errPipe, fds, hist>>
    /\ UNCHANGED <<webVars, scanVars, labelVars>>

----------------------------------------------------------------------------
(* The child interpreter. *)

\* A command with nothing left to write and nothing to do at its end is over.
Busy(pendOut, pendErr, fin) == pendOut # <<>> \/ pendErr # <<>> \/ fin # "next"

\* The shell reads the next line of its stdin and starts to run it.
ChildReadLine ==
    /\ child.st = "alive" /\ ~child.busy
    /\ inPipe # <<>>
    /\ LET run == ShellRun(Head(inPipe)) IN
         child' = [child EXCEPT !.busy = Busy(run.out, run.err, run.fin),
                                !.pendOut = run.out, !.pendErr = run.err,
                                !.fin = run.fin]
    /\ inPipe' = Tail(inPipe)
    /\ UNCHANGED <<ms, crashed, ret, epc, ecmd, stdoutBuf, stderrBuf, outPipe,
                   errPipe, fds, hist>>
    /\ UNCHANGED <<webVars, scanVars, labelVars>>

\* The running command writes its stdout bytes.
ChildWriteOut ==
    /\ child.st = "alive" /\ child.busy
    /\ child.pendOut # <<>>
    /\ outPipe' = outPipe \o child.pendOut
    /\ child' = [child EXCEPT !.pendOut = <<>>,
                              !.busy = Busy(<<>>, child.pendErr, child.fin)]
    /\ UNCHANGED <<ms, crashed, ret, epc, ecmd, stdoutBuf, stderrBuf, inPipe,
                   errPipe, fds, hist>>
    /\ UNCHANGED <<webVars, scanVars, labelVars>>

\* The running command writes its stderr bytes; they are lost when the shell
\* has closed its stderr.
ChildWriteErr ==
    /\ child.st = "alive" /\ child.busy
    /\ child.pendErr # <<>>
    /\ errPipe' = IF child.errOpen THEN errPipe \o child.pendErr ELSE errPipe
    /\ child' = [child EXCEPT !.pendErr = <<>>,
                              !.busy = Busy(child.pendOut, <<>>, child.fin)]
    /\ UNCHANGED <<ms, crashed, ret, epc, ecmd, stdoutBuf, stderrBuf, inPipe,
                   outPipe, fds, hist>>
    /\ UNCHANGED <<webVars, scanVars, labelVars>>

\* A command that ends the shell or closes its stderr does so once it has
\* written everything (a hanging one never ends); an exit drops the input
\* the shell had not read.
ChildFinish ==
    /\ child.st = "alive" /\ child.busy
    /\ child.pendOut = <<>> /\ child.pendErr = <<>>
    /\ child.fin \in {"exit0", "exit1", "closeErr"}
    /\ child' = [child EXCEPT
                   !.busy = FALSE,
                   !.fin = "next",
                   !.st = IF child.fin = "closeErr" THEN @ ELSE child.fin,
                   !.errOpen = IF child.fin = "closeErr" THEN FALSE ELSE @]
    /\ inPipe' = IF child.fin = "closeErr" THEN inPipe ELSE <<>>
    /\ UNCHANGED <<ms, crashed, ret, epc, ecmd, stdoutBuf, stderrBuf, outPipe,
                   errPipe, fds, hist>>
    /\ UNCHANGED <<webVars, scanVars, labelVars>>

----------------------------------------------------------------------------
(* The program: a caller that issues its calls one at a time, the reader of *)
(* the Execute in flight, and the child.                                    *)

Next ==
    \/ \E path \in ShellPaths : NewManagedShell(path)
    \/ \E fault \in StartFaults : Start(fault)
    \/ \E command \in Commands : Execute(command)
    \/ DrainRead
    \/ DrainEnd
    \/ StderrRead
    \/ ExecuteReturn
    \/ \E osFails \in BOOLEAN : Stop(osFails)
    \/ WriteLongRunning
    \/ ChildReadLine
    \/ ChildWriteOut
    \/ ChildWriteErr
    \/ ChildFinish

Spec == Init /\ [][Next]_vars

\* The same program with a second goroutine that may call Stop while an
\* Execute is in progress.
RaceNext ==
    \/ \E path \in ShellPaths : NewManagedShell(path)
    \/ \E fault \in StartFaults : Start(fault)
    \/ \E command \in Commands : Execute(command)
    \/ DrainRead
    \/ DrainEnd
    \/ DrainOnNil
    \/ StderrRead
    \/ ReadAllOnNil
    \/ ExecuteReturn
    \/ \E osFails \in BOOLEAN : Stop(osFails)
    \/ \E osFails \in BOOLEAN : StopDuringExecute(osFails)
    \/ WriteLongRunning
    \/ ChildReadLine
    \/ ChildWriteOut
    \/ ChildWriteErr
    \/ ChildFinish

SpecRace == Init /\ [][RaceNext]_vars

\* The same program with the commands of FramingCommands, one call at a
\* time, on a shell that starts without a fault.
FramingNext ==
    \/ NewManagedShell("/bin/bash")
    \/ Start("none")
    \/ \E command \in FramingCommands : Execute(command)
    \/ DrainRead
    \/ DrainEnd
    \/ StderrRead
    \/ ExecuteReturn
    \/ ChildReadLine
    \/ ChildWriteOut
    \/ ChildWriteErr
    \/ ChildFinish

SpecFraming == Init /\ [][FramingNext]_vars

----------------------------------------------------------------------------
(* The web server's run-block handler.  net/http runs every request in a
   goroutine of its own and handleRunCodeBlock takes no lock, so the
   Executes of two requests run against the one ManagedShell side by side,
   each with its own local buffers. *)

\* What a request may ask for.
Methods == {"POST", "GET"}
WebCommands == {"exec 2>&-", "printf '\\377'", ">&2 echo err; exit 1"}

\* The text a client reads back from the JSON string json.Marshal writes for
\* a Go string: every character as it is (escapes decode to themselves),
\* except that bytes that are not valid UTF-8 become U+FFFD.
ReplacementChar == "U+FFFD"
JsonString(text) ==
    [i \in 1..Len(text) |-> IF text[i] = BadByte THEN ReplacementChar ELSE text[i]]

\* A faulty encoding: the error field is always written.
JsonMarshalNoOmit(stdout, stderr, error) ==
    [fields |-> {"stdout", "stderr", "error"},
     stdout |-> JsonString(stdout),
     stderr |-> JsonString(stderr)]

\* json.Marshal(ExecResponse{...}): "error" has omitempty.
JsonMarshal(stdout, stderr, error) ==
    [fields |-> {"stdout", "stderr"} \cup (IF error = "" THEN {} ELSE {"error"}),
     stdout |-> JsonString(stdout),
     stderr |-> JsonString(stderr)]

\* execErr.Error(): not empty for any error Execute returns.
ErrorText(execErr) == IF execErr = "nil" THEN "" ELSE execErr

\* http.Error(w, ..., code): a plain-text answer, no JSON.
HttpError(r, code) ==
    [r EXCEPT !.pc = "done", !.status = code]

\* Lines 171-194: the answer to a request whose Execute has returned.
Answered(r, stdout, stderr, execErr) ==
    [r EXCEPT !.pc = "done", !.status = 200,
              !.buf = <<>>, !.errBuf = <<>>,
              !.out = stdout, !.err = stderr, !.execErr = execErr,
              !.body = JsonMarshal(stdout, stderr, ErrorText(execErr))]

\* NewServer, lines 53-63 and 75-81: a ManagedShell for /bin/bash is made
\* and started; when Start fails there is no Server.
NewServer(fault) ==
    /\ web.server = "none" /\ ~ms.made /\ ~crashed
    /\ LET r == StartSteps(ManagedShell(ExecCommand("/bin/bash")), fault) IN
         IF r.launched
           THEN /\ ms' = r.ms
                /\ child' = FreshChild
                /\ fds' = [stdin |-> TRUE, rd |-> TRUE]
                /\ web' = [web EXCEPT !.server = "shell"]
           ELSE /\ web' = [web EXCEPT !.server = "failed"]
                /\ UNCHANGED <<ms, child, fds>>
    /\ UNCHANGED <<crashed, ret, epc, ecmd, stdoutBuf, stderrBuf, inPipe, outPipe,
                   errPipe, hist>>
    /\ UNCHANGED <<scanVars, labelVars>>

\* A Server value whose managedShell is nil, the case line 152 guards.
ServerWithoutShell ==
    /\ web.server = "none" /\ ~ms.made /\ ~crashed
    /\ web' = [web EXCEPT !.server = "noshell"]
    /\ UNCHANGED <<shellVars, scanVars, labelVars>>

\* The server exists and request h is the next to arrive.
Arrives(h) ==
    /\ web.server \in {"shell", "noshell"} /\ ~crashed
    /\ web.req[h].pc = "new"
    /\ \A g \in 1..(h - 1) : web.req[g].pc # "new"

\* handleRunCodeBlock, lines 146-169, up to the point where Execute has
\* written the command (part_002 lines 64-76), and lines 171-194 when
\* Execute returns an error at once.
HandleRunCodeBlock(h, method, bodyOk, command) ==
    /\ Arrives(h)
    /\ LET r == [web.req[h] EXCEPT !.method = method, !.bodyOk = bodyOk] IN
       IF method # "POST"
         THEN /\ web' = [web EXCEPT !.req[h] = HttpError(r, 405)]
              /\ UNCHANGED <<crashed, inPipe>>
       ELSE IF web.server = "noshell"
         THEN /\ web' = [web EXCEPT !.req[h] = HttpError(r, 500)]
              /\ UNCHANGED <<crashed, inPipe>>
       ELSE IF ~bodyOk
         THEN /\ web' = [web EXCEPT !.req[h] = HttpError(r, 400)]
              /\ UNCHANGED <<crashed, inPipe>>
       ELSE LET e == [r EXCEPT !.execs = @ + 1] IN
       IF NotStarted(ms)
         THEN /\ web' = [web EXCEPT !.req[h] = Answered(e, <<>>, <<>>, "NotStarted")]
              /\ UNCHANGED <<crashed, inPipe>>
       ELSE IF ~ms.stdin
         THEN /\ crashed' = TRUE
              /\ web' = [web EXCEPT !.req[h] = e]
              /\ UNCHANGED inPipe
       ELSE IF ~fds.stdin \/ child.st # "alive"
         THEN /\ web' = [web EXCEPT !.req[h] = Answered(e, <<>>, <<>>, "WriteFailure")]
              /\ UNCHANGED <<crashed, inPipe>>
       ELSE /\ inPipe' = inPipe \o FullCommand(command)
            /\ web' = [web EXCEPT !.req[h] = [e EXCEPT !.pc = "drain"]]
            /\ UNCHANGED crashed
    /\ UNCHANGED <<ms, ret, epc, ecmd, stdoutBuf, stderrBuf, child, outPipe,
                   errPipe, fds, hist>>
    /\ UNCHANGED <<scanVars, labelVars>>

\* The stdout reader of request h's Execute, part_002 lines 83-95: one Read
\* takes the bytes the pipe holds, up to the size of buf (the child's writes
\* arrive whole here).
WebDrainRead(h) ==
    /\ web.req[h].pc = "drain" /\ ~crashed
    /\ fds.rd /\ outPipe # <<>>
    /\ LET n == Min(Len(outPipe), ReadBufSize)
           buf == web.req[h].buf \o SubSeq(outPipe, 1, n) IN
           /\ web' = [web EXCEPT !.req[h].buf = buf,
                                 !.req[h].pc = IF Contains(buf, delimiter)
                                                 THEN "stderr" ELSE "drain"]
           /\ outPipe' = SubSeq(outPipe, n + 1, Len(outPipe))
    /\ UNCHANGED <<ms, crashed, ret, epc, ecmd, stdoutBuf, stderrBuf, child, inPipe,
                   errPipe, fds, hist>>
    /\ UNCHANGED <<scanVars, labelVars>>

\* The stdout reader of request h's Execute, part_002 lines 84-90: Read
\* returns io.EOF or another error.
WebDrainEnd(h) ==
    /\ web.req[h].pc = "drain" /\ ~crashed
    /\ \/ ~fds.rd
       \/ outPipe = <<>> /\ child.st # "alive"
    /\ web' = [web EXCEPT !.req[h].pc = "stderr"]
    /\ UNCHANGED <<shellVars, scanVars, labelVars>>

\* io.ReadAll(ms.stderr) of request h's Execute, part_002 line 109: one Read
\* that returns data.
WebStderrRead(h) ==
    /\ web.req[h].pc = "stderr" /\ ~crashed
    /\ fds.rd /\ errPipe # <<>>
    /\ web' = [web EXCEPT !.req[h].errBuf = @ \o errPipe]
    /\ errPipe' = <<>>
    /\ UNCHANGED <<ms, crashed, ret, epc, ecmd, stdoutBuf, stderrBuf, child, inPipe,
                   outPipe, fds, hist>>
    /\ UNCHANGED <<scanVars, labelVars>>

\* Request h's Execute returns (part_002 lines 109-125) and the handler
\* answers (webserver.go lines 171-194).
WebRespond(h) ==
    /\ web.req[h].pc = "stderr" /\ ~crashed
    /\ StderrAtEnd
    /\ web' = [web EXCEPT !.req[h] = Answered(@, CleanStdout(@.buf), @.errBuf, "nil")]
    /\ UNCHANGED <<shellVars, scanVars, labelVars>>

WebNext ==
    \/ \E fault \in StartFaults : NewServer(fault)
    \/ ServerWithoutShell
    \/ \E h \in Requests, method \in Methods, bodyOk \in BOOLEAN,
          command \in WebCommands : HandleRunCodeBlock(h, method, bodyOk, command)
    \/ \E h \in Requests : WebDrainRead(h)
    \/ \E h \in Requests : WebDrainEnd(h)
    \/ \E h \in Requests : WebStderrRead(h)
    \/ \E h \in Requests : WebRespond(h)
    \/ ChildReadLine
    \/ ChildWriteOut
    \/ ChildWriteErr
    \/ ChildFinish

SpecWeb == Init /\ [][WebNext]_vars

----------------------------------------------------------------------------
(* The line scanner, BuffScanner(timeout, label, source): a background task
   reads the source, splits what it reads into lines and sends them on the
   channel it returned; it ends the scan on end-of-stream, on a read error,
   on a second empty read in a row, or when a read stays blocked for the
   timeout.  Time is counted in ticks. *)

\* The timeout of the scan, in ticks, and the longest source text followed.
Timeout == 2
MaxSrcLen == 3

\* How many lines the channel holds before a send blocks.
ChanCap == 1

\* The two reserved payloads, MsgTimeout and MsgError + " : multiple Read
\* calls return no data or error".
MsgTimeout == <<"t","i","m","e","o","u","t">>
MsgMalfunction ==
    <<"e","r","r","o","r"," ",":"," ","m","u","l","t","i","p","l","e"," ",
      "R","e","a","d"," ","c","a","l","l","s"," ","r","e","t","u","r","n"," ",
      "n","o"," ","d","a","t","a"," ","o","r"," ","e","r","r","o","r">>

\* The texts a source may hold.
SrcTexts == UNION {[1..n -> {"a", NL}] : n \in 0..MaxSrcLen}

\* The sources: "finite" delivers its text and then end-of-stream
\* (simpleReader), "broken" delivers its text and then an error that is not
\* end-of-stream, "stalled" blocks in Read for longer than the timeout and
\* then returns 0, nil (stalledReader), "busted" returns 0, nil at once from
\* every Read (bustedReader), "slow" delivers its text and then
\* end-of-stream, every Read returning only after a wait shorter than the
\* timeout, "hiccup" delivers its text and then end-of-stream, and any of its
\* Reads may return 0, nil instead.
SrcKinds == {"finite", "broken", "stalled", "busted", "slow", "hiccup"}
HasText(kind) == kind \in {"finite", "broken", "slow", "hiccup"}
Source(kind, text) ==
    [kind |-> kind,
     all |-> IF HasText(kind) THEN text ELSE <<>>,
     rest |-> IF HasText(kind) THEN text ELSE <<>>,
     ready |-> FALSE, reading |-> FALSE, waited |-> 0, closes |-> 0]

\* The Read just issued returns at once: always for the sources that do not
\* wait, and for a slow one when the wait is over.
ReturnsNow == src.kind \in {"finite", "broken", "hiccup"} \/ (src.kind = "slow" /\ src.ready)

\* The first line terminator of buf (0: none), the complete lines of buf and
\* the partial line left after them.
FirstNL(buf) ==
    IF \E i \in 1..Len(buf) : buf[i] = NL
      THEN CHOOSE i \in 1..Len(buf) : buf[i] = NL /\ \A j \in 1..(i - 1) : buf[j] # NL
      ELSE 0

\* A faulty split: empty lines are dropped.
RECURSIVE CompleteLinesNoEmpty(_)
CompleteLinesNoEmpty(buf) ==
    LET i == FirstNL(buf) IN
      IF i = 0 THEN <<>>
      ELSE (IF i = 1 THEN <<>> ELSE <<SubSeq(buf, 1, i - 1)>>)
             \o CompleteLinesNoEmpty(SubSeq(buf, i + 1, Len(buf)))

RECURSIVE CompleteLines(_)
CompleteLines(buf) ==
    LET i == FirstNL(buf) IN
      IF i = 0 THEN <<>>
      ELSE <<SubSeq(buf, 1, i - 1)>> \o CompleteLines(SubSeq(buf, i + 1, Len(buf)))

RECURSIVE PartialLine(_)
PartialLine(buf) ==
    LET i == FirstNL(buf) IN
      IF i = 0 THEN buf ELSE PartialLine(SubSeq(buf, i + 1, Len(buf)))

\* The task goes on to send its pending lines, or straight to what follows
\* when there are none.
ThenSend(s, lines, after) ==
    [s EXCEPT !.pending = lines, !.after = after,
              !.pc = IF lines = <<>> THEN after ELSE "send"]

\* BuffScanner: the source is handed over and the task starts; the channel
\* is returned at once.
BuffScanner(kind, text) ==
    /\ scan.pc = "unstarted"
    /\ src' = Source(kind, text)
    /\ scan' = [scan EXCEPT !.pc = "read"]
    /\ UNCHANGED <<chan, recv>>
    /\ UNCHANGED <<shellVars, webVars, labelVars>>

\* A faulty read of data: the count of empty reads is not started again.
ReadDataKeepsCount ==
    /\ scan.pc = "read"
    /\ ReturnsNow /\ src.rest # <<>>
    /\ \E n \in 1..Len(src.rest) :
         LET buf == scan.lineBuf \o SubSeq(src.rest, 1, n) IN
           /\ src' = [src EXCEPT !.rest = SubSeq(@, n + 1, Len(@)), !.ready = FALSE]
           /\ scan' = ThenSend([scan EXCEPT !.lineBuf = PartialLine(buf),
                                            !.clock = 0, !.lastRead = "data"],
                               CompleteLines(buf), "read")
    /\ UNCHANGED <<chan, recv>>
    /\ UNCHANGED <<shellVars, webVars, labelVars>>

\* A faulty read of data: the clock is not started again.
ReadDataKeepsClock ==
    /\ scan.pc = "read"
    /\ ReturnsNow /\ src.rest # <<>>
    /\ \E n \in 1..Len(src.rest) :
         LET buf == scan.lineBuf \o SubSeq(src.rest, 1, n) IN
           /\ src' = [src EXCEPT !.rest = SubSeq(@, n + 1, Len(@)), !.ready = FALSE]
           /\ scan' = ThenSend([scan EXCEPT !.lineBuf = PartialLine(buf),
                                            !.stallCount = 0, !.lastRead = "data"],
                               CompleteLines(buf), "read")
    /\ UNCHANGED <<chan, recv>>
    /\ UNCHANGED <<shellVars, webVars, labelVars>>

\* A read returns one or more bytes: the clock and the count of empty reads
\* start again, the complete lines go to the channel, the partial line stays.
ReadData ==
    /\ scan.pc = "read"
    /\ ReturnsNow /\ src.rest # <<>>
    /\ \E n \in 1..Len(src.rest) :
         LET buf == scan.lineBuf \o SubSeq(src.rest, 1, n) IN
           /\ src' = [src EXCEPT !.rest = SubSeq(@, n + 1, Len(@)), !.ready = FALSE]
           /\ scan' = ThenSend([scan EXCEPT !.lineBuf = PartialLine(buf),
                                            !.clock = 0, !.stallCount = 0,
                                            !.lastRead = "data"],
                               CompleteLines(buf), "read")
    /\ UNCHANGED <<chan, recv>>
    /\ UNCHANGED <<shellVars, webVars, labelVars>>

\* A read returns end-of-stream: a partial line that is not empty is sent
\* as the last line, then the scan closes.
ReadEOF ==
    /\ scan.pc = "read"
    /\ src.kind # "broken" /\ ReturnsNow /\ src.rest = <<>>
    /\ scan' = ThenSend([scan EXCEPT !.lineBuf = <<>>, !.outcome = "eof",
                                     !.lastRead = "eof"],
                        IF scan.lineBuf = <<>> THEN <<>> ELSE <<scan.lineBuf>>,
                        "close")
    /\ UNCHANGED <<src, chan, recv>>
    /\ UNCHANGED <<shellVars, webVars, labelVars>>

\* A faulty end on a read error: a diagnostic line is sent before the close.
ReadErrorSendsDiagnostic ==
    /\ scan.pc = "read"
    /\ src.kind = "broken" /\ src.rest = <<>>
    /\ scan' = ThenSend([scan EXCEPT !.outcome = "error", !.lastRead = "error"],
                        <<MsgMalfunction>>, "close")
    /\ UNCHANGED <<src, chan, recv>>
    /\ UNCHANGED <<shellVars, webVars, labelVars>>

\* A read returns another error: the scan closes, nothing is sent.
ReadError ==
    /\ scan.pc = "read"
    /\ src.kind = "broken" /\ src.rest = <<>>
    /\ scan' = [scan EXCEPT !.pc = "close", !.outcome = "error", !.lastRead = "error"]
    /\ UNCHANGED <<src, chan, recv>>
    /\ UNCHANGED <<shellVars, webVars, labelVars>>

\* A faulty count: the first empty read already ends the scan.
ReadEmptyFirstFatal ==
    /\ scan.pc = "read"
    /\ src.kind \in {"busted", "hiccup"}
    /\ scan' = ThenSend([scan EXCEPT !.stallCount = @ + 1, !.lastRead = "empty",
                                     !.outcome = "malfunction"],
                        <<MsgMalfunction>>, "close")
    /\ UNCHANGED <<src, chan, recv>>
    /\ UNCHANGED <<shellVars, webVars, labelVars>>

\* A read returns zero bytes and no error: once is tolerated, the second in
\* a row ends the scan with the malfunction line.
ReadEmpty ==
    /\ scan.pc = "read"
    /\ src.kind \in {"busted", "hiccup"}
    /\ scan' = IF scan.stallCount + 1 > 1
                 THEN ThenSend([scan EXCEPT !.stallCount = @ + 1, !.lastRead = "empty",
                                            !.outcome = "malfunction"],
                               <<MsgMalfunction>>, "close")
                 ELSE [scan EXCEPT !.stallCount = @ + 1, !.lastRead = "empty"]
    /\ UNCHANGED <<src, chan, recv>>
    /\ UNCHANGED <<shellVars, webVars, labelVars>>

\* A read does not return: the task waits for it against the timer.
ReadBlocks ==
    /\ scan.pc = "read"
    /\ src.kind = "stalled" \/ (src.kind = "slow" /\ ~src.ready)
    /\ src' = [src EXCEPT !.reading = TRUE, !.waited = 0]
    /\ scan' = [scan EXCEPT !.pc = "blocked"]
    /\ UNCHANGED <<chan, recv>>
    /\ UNCHANGED <<shellVars, webVars, labelVars>>

\* Time passes while the read is blocked; a slow source does not let its
\* Read wait for as long as the timeout.
Tick ==
    /\ scan.pc = "blocked"
    /\ scan.clock < Timeout
    /\ src.kind = "slow" => src.waited + 1 < Timeout
    /\ scan' = [scan EXCEPT !.clock = @ + 1, !.elapsed = @ + 1]
    /\ src' = [src EXCEPT !.waited = @ + 1]
    /\ UNCHANGED <<chan, recv>>
    /\ UNCHANGED <<shellVars, webVars, labelVars>>

\* The wait of a slow source's Read is over before the timer fires: the
\* Read returns what the source has next.
ReadUnblocks ==
    /\ scan.pc = "blocked"
    /\ src.kind = "slow"
    /\ scan.clock < Timeout
    /\ src' = [src EXCEPT !.reading = FALSE, !.ready = TRUE]
    /\ scan' = [scan EXCEPT !.pc = "read"]
    /\ UNCHANGED <<chan, recv>>
    /\ UNCHANGED <<shellVars, webVars, labelVars>>

\* A faulty timer: it never fires.
TimeoutFiresNever ==
    /\ scan.pc = "blocked"
    /\ FALSE
    /\ UNCHANGED vars

\* A faulty timer: it fires without waiting for the timeout.
TimeoutFiresEarly ==
    /\ scan.pc = "blocked"
    /\ scan' = ThenSend([scan EXCEPT !.outcome = "timeout"], <<MsgTimeout>>, "close")
    /\ UNCHANGED <<src, chan, recv>>
    /\ UNCHANGED <<shellVars, webVars, labelVars>>

\* The read has been blocked for the timeout: the scan ends with the
\* timeout line; the read itself stays blocked, detached.
TimeoutFires ==
    /\ scan.pc = "blocked"
    /\ scan.clock >= Timeout
    /\ scan' = ThenSend([scan EXCEPT !.outcome = "timeout"], <<MsgTimeout>>, "close")
    /\ UNCHANGED <<src, chan, recv>>
    /\ UNCHANGED <<shellVars, webVars, labelVars>>

\* A faulty late return: what the detached read returns is sent on the
\* channel.
LateReadSends ==
    /\ src.reading
    /\ scan.pc # "blocked"
    /\ src' = [src EXCEPT !.reading = FALSE]
    /\ chan' = [chan EXCEPT !.q = Append(@, <<>>)]
    /\ UNCHANGED <<scan, recv>>
    /\ UNCHANGED <<shellVars, webVars, labelVars>>

\* A faulty late return: the detached read closes the channel as well.
LateReadClosesToo ==
    /\ src.reading
    /\ scan.pc # "blocked"
    /\ src' = [src EXCEPT !.reading = FALSE]
    /\ chan' = [chan EXCEPT !.closes = @ + 1]
    /\ UNCHANGED <<scan, recv>>
    /\ UNCHANGED <<shellVars, webVars, labelVars>>

\* The detached read returns after the timeout (stalledReader: 0, nil after
\* five seconds); what it returns is dropped.
LateReadReturns ==
    /\ src.reading
    /\ scan.pc # "blocked"
    /\ src' = [src EXCEPT !.reading = FALSE]
    /\ UNCHANGED <<scan, chan, recv>>
    /\ UNCHANGED <<shellVars, webVars, labelVars>>

\* A faulty send: it does not wait for room in the channel.
SendUnbounded ==
    /\ scan.pc = "send"
    /\ chan' = [chan EXCEPT !.q = Append(@, Head(scan.pending))]
    /\ scan' = [scan EXCEPT !.pending = Tail(@),
                            !.pc = IF Tail(scan.pending) = <<>> THEN scan.after ELSE "send"]
    /\ UNCHANGED <<src, recv>>
    /\ UNCHANGED <<shellVars, webVars, labelVars>>

\* The task sends its next pending line; the send blocks while the channel
\* is full.
Send ==
    /\ scan.pc = "send"
    /\ Len(chan.q) < ChanCap
    /\ chan' = [chan EXCEPT !.q = Append(@, Head(scan.pending))]
    /\ scan' = [scan EXCEPT !.pending = Tail(@),
                            !.pc = IF Tail(scan.pending) = <<>> THEN scan.after ELSE "send"]
    /\ UNCHANGED <<src, recv>>
    /\ UNCHANGED <<shellVars, webVars, labelVars>>

\* The end of every scan: the source is closed, then the channel.
CloseSource ==
    /\ scan.pc = "close"
    /\ src' = [src EXCEPT !.closes = @ + 1]
    /\ scan' = [scan EXCEPT !.pc = "closeChannel"]
    /\ UNCHANGED <<chan, recv>>
    /\ UNCHANGED <<shellVars, webVars, labelVars>>

CloseChannel ==
    /\ scan.pc = "closeChannel"
    /\ chan' = [chan EXCEPT !.closes = @ + 1]
    /\ scan' = [scan EXCEPT !.pc = "done"]
    /\ UNCHANGED <<src, recv>>
    /\ UNCHANGED <<shellVars, webVars, labelVars>>

\* The consumer, line, ok := <-chOut: it receives the next line, or finds
\* the channel closed and empty.
Receive ==
    /\ chan.q # <<>>
    /\ recv' = [recv EXCEPT !.items = Append(@, Head(chan.q))]
    /\ chan' = [chan EXCEPT !.q = Tail(@)]
    /\ UNCHANGED <<src, scan>>
    /\ UNCHANGED <<shellVars, webVars, labelVars>>

ReceiveClosed ==
    /\ chan.q = <<>> /\ chan.closes > 0
    /\ ~recv.sawClose
    /\ recv' = [recv EXCEPT !.sawClose = TRUE]
    /\ UNCHANGED <<src, scan, chan>>
    /\ UNCHANGED <<shellVars, webVars, labelVars>>

ScanNext ==
    \/ \E kind \in SrcKinds, text \in SrcTexts : BuffScanner(kind, text)
    \/ ReadData
    \/ ReadEOF
    \/ ReadError
    \/ ReadEmpty
    \/ ReadBlocks
    \/ Tick
    \/ ReadUnblocks
    \/ TimeoutFires
    \/ LateReadReturns
    \/ Send
    \/ CloseSource
    \/ CloseChannel
    \/ Receive
    \/ ReceiveClosed

SpecScan == Init /\ [][ScanNext]_vars

\* The same with the scheduling the scan relies on: the task runs when it
\* can, time passes while a read is blocked, a slow source's Read returns,
\* and the consumer keeps receiving.
ScanTask ==
    \/ ReadData \/ ReadEOF \/ ReadError \/ ReadEmpty \/ ReadBlocks
    \/ TimeoutFires \/ Send \/ CloseSource \/ CloseChannel

SpecScanLive ==
    /\ SpecScan
    /\ WF_vars(ScanTask)
    /\ WF_vars(Tick)
    /\ WF_vars(ReadUnblocks)
    /\ WF_vars(Receive \/ ReceiveClosed)

----------------------------------------------------------------------------
(* The lifecycle state of the instance, read off its fields. *)

\* "Stopped": Stop has set cmd to nil.  "Running": cmd.Process is set.
\* "Unstarted": a cmd without a process.  "None": no instance yet.
LifeState(m) ==
    IF ~m.made THEN "None"
    ELSE IF m.cmd.nil THEN "Stopped"
    ELSE IF m.cmd.Process THEN "Running"
    ELSE "Unstarted"

\* The three stream handles of the instance.
Handles(m) == <<m.stdin, m.stdout, m.stderr>>

\* The output of a command, and whether it prints the delimiter itself.
OutputOf(command) == ShellRun(command).out
PrintsDelimiter(command) == Contains(OutputOf(command), delimiter)
StderrOnly(command) == OutputOf(command) = <<>> /\ ShellRun(command).err # <<>>

\* No command that returned so far printed the delimiter itself.
CleanHistory == \A i \in 1..Len(hist) : ~PrintsDelimiter(hist[i].cmd)

\* An Execute that wrote its command has returned and nothing is in flight.
ExecuteDone == epc = "idle" /\ ret.op = "Execute" /\ ret.err = "nil" /\ hist # <<>>

AnyStop == \E osFails \in BOOLEAN : Stop(osFails)
AnyStart == \E fault \in StartFaults : Start(fault)
AnyExecute == \E command \in Commands : Execute(command)

----------------------------------------------------------------------------
(* The claims. *)

\* C1: once the delimiter has appeared on the child's stdout (the stdout
\* reader has ended) and every stderr byte written so far has been read,
\* Execute can return: it does not wait for the child to exit or to close
\* its error output.  Fails on the code: io.ReadAll(ms.stderr) returns only
\* at the end of the stream, so Execute stays blocked while a live child
\* holds its stderr open.
C1_ExecuteReturnsWhileChildRuns ==
    (epc = "stderr" /\ Contains(stdoutBuf, delimiter) /\ errPipe = <<>>)
        => ENABLED ExecuteReturn

\* C2: for a command whose output does not contain the delimiter, however
\* the stdout bytes are split over the reads, the stdout Execute returns
\* contains neither the delimiter nor the echo line and is the command's
\* output with the surrounding white space trimmed.  Fails on the code: the
\* reader stops as soon as the buffer contains the delimiter, and a read that
\* ends right after it leaves the newline unread, so that
\* Replace(delimiter + "\n") removes nothing.
C2_StdoutIsTrimmedOutput ==
    (ExecuteDone /\ CleanHistory) =>
        /\ ~Contains(ret.stdout, delimiter)
        /\ ~Contains(ret.stdout, echoLine)
        /\ ret.stdout = TrimSpace(OutputOf(hist[Len(hist)].cmd))

\* C3: in a sequence of Execute calls issued one after another (none of
\* whose commands prints the delimiter itself), the stdout of every call is
\* the output of its own command, nothing more and nothing less, up to the
\* trimmed white space.  Fails on the code for the reason C2 fails.
C3_EachCallSeesOnlyItsOwnOutput ==
    CleanHistory =>
        \A i \in 1..Len(hist) : hist[i].stdout = TrimSpace(OutputOf(hist[i].cmd))

\* C4: for a command that writes only to stderr (on a shell whose stderr is
\* open), Execute returns: once the delimiter and the command's stderr bytes
\* have been read it can return, and what it returns is an empty stdout, the
\* stderr bytes untrimmed, and a nil error.  Fails on the code: Execute stays
\* blocked in io.ReadAll(ms.stderr) while the shell lives.
C4_StderrOnlyCommandReturns ==
    /\ (epc = "stderr" /\ StderrOnly(ecmd) /\ child.errOpen
            /\ Contains(stdoutBuf, delimiter)
            /\ stderrBuf = ShellRun(ecmd).err /\ errPipe = <<>>)
         => ENABLED ExecuteReturn
    /\ (epc = "idle" /\ ret.op = "Execute" /\ hist # <<>> /\ child.errOpen
            /\ ret.err \notin {"NotStarted", "WriteFailure", "panic"}
            /\ StderrOnly(hist[Len(hist)].cmd))
         => /\ ret.stdout = <<>>
            /\ ret.stderr = ShellRun(hist[Len(hist)].cmd).err
            /\ ret.err = "nil"

\* C5: Execute on an instance that is not Running returns the NotStarted
\* error with empty stdout and stderr, writes nothing to the child's stdin
\* and starts no reader.
C5_ExecuteWhenNotRunning ==
    [][(AnyExecute /\ LifeState(ms) # "Running") =>
          /\ ret' = Returned("Execute", <<>>, <<>>, "NotStarted")
          /\ UNCHANGED <<ms, crashed, epc, inPipe, outPipe, errPipe, child, fds>>]_vars

C5_Witness ==
    /\ ret = Returned("Execute", <<>>, <<>>, "NotStarted")
    /\ LifeState(ms) = "Stopped"
    /\ child.st = "killed"

\* C6: a Stop that follows a Stop (no Start in between) returns no error and
\* leaves the instance as it was, whatever the first Stop returned.  Fails on
\* the code: a Stop whose wait failed returns before the fields are set to
\* nil, and the next Stop runs close, kill and wait again.
C6_RepeatedStopSucceeds ==
    [][(AnyStop /\ ret.op = "Stop") => (ret'.err = "nil" /\ ms' = ms)]_vars

C8_LifecycleOnlyForward ==
    [][/\ LifeState(ms') # LifeState(ms) =>
             <<LifeState(ms), LifeState(ms')>> \in
                 {<<"None", "Unstarted">>, <<"Unstarted", "Running">>,
                  <<"Running", "Stopped">>}
       /\ LifeState(ms) = "Stopped" => LifeState(ms') = "Stopped"]_vars

\* A Start was issued on a stopped instance, and the instance is still Stopped.
C8_Witness ==
    /\ ret.op = "Start"
    /\ LifeState(ms) = "Stopped"

\* C9: the three stream handles are all present, with a started process, or
\* all absent.  Fails on the code: a failed Start leaves the handles it had
\* assigned, and Start on a started instance sets stdin alone to nil.
C9_HandlesAllOrNone ==
    \/ Handles(ms) = <<TRUE, TRUE, TRUE>> /\ LifeState(ms) = "Running"
    \/ Handles(ms) = <<FALSE, FALSE, FALSE>>

\* C10: a Start that returns an error leaves the stream handles and the
\* lifecycle state as they were before the call.  Fails on the code: the
\* handles assigned before the failing step stay assigned.
C10_FailedStartKeepsState ==
    [][(AnyStart /\ ret'.err = "StartFailure") =>
          /\ Handles(ms') = Handles(ms)
          /\ LifeState(ms') = LifeState(ms)]_vars

----------------------------------------------------------------------------
\* C11: when Start returns no error the instance is Running: the process
\* handle is present, the process is alive, and the command-input, output
\* and error-output handles are all non-nil.
C11_StartedIsRunning ==
    [][(AnyStart /\ ret'.err = "nil")
         => /\ LifeState(ms') = "Running"
            /\ Handles(ms') = <<TRUE, TRUE, TRUE>>
            /\ child'.st = "alive"
            /\ fds' = [stdin |-> TRUE, rd |-> TRUE]]_vars

\* Start has just returned no error and the instance is Running.
C11_Witness ==
    /\ ret = Returned("Start", <<>>, <<>>, "nil")
    /\ LifeState(ms) = "Running"
    /\ Handles(ms) = <<TRUE, TRUE, TRUE>>
    /\ child.st = "alive"

\* A long-running command is in the input stream of a Running interpreter
\* or is being run by it.
LongRunningWritten ==
    /\ LifeState(ms) = "Running" /\ ms.stdin
    /\ child.st = "alive"
    /\ \/ \E i \in 1..Len(inPipe) : ShellRun(inPipe[i]).fin = "hang"
       \/ child.busy /\ child.fin = "hang"

----------------------------------------------------------------------------
\* C15: a Stop of a Running instance that reaches the wait returns success
\* when the wait reports an exit status (killed, or a non-zero or zero exit),
\* and ShutdownFailure when the wait fails in any other way; a failed close
\* of the input stream (already closed) or a failed kill (child already
\* gone) does not change what is returned.
C15_StopReturnsByWaitStatus ==
    [][\A osFails \in BOOLEAN :
         (Stop(osFails) /\ LifeState(ms) = "Running" /\ ms.stdin)
           => ret'.err = IF osFails THEN "ShutdownFailure" ELSE "nil"]_vars

\* Stop has returned success although the kill failed: the child had exited
\* by itself, with a non-zero status, before Stop was called.
C15_Witness ==
    /\ ret = Returned("Stop", <<>>, <<>>, "nil")
    /\ LifeState(ms) = "Stopped"
    /\ child.st = "exit1"

\* C16: NewManagedShell fails with InvalidArgument and yields no instance
\* exactly when the path is empty; with any other path it yields an
\* Unstarted instance for that path and spawns nothing; and a Start of an
\* Unstarted instance whose path cannot be launched fails with StartFailure,
\* no child spawned.
C16_CreateChecksOnlyEmptyPath ==
    [][/\ \A shellPath \in ShellPaths :
            NewManagedShell(shellPath)
              => /\ child' = child
                 /\ IF shellPath = ""
                      THEN ret'.err = "InvalidArgument" /\ ~ms'.made
                      ELSE /\ ret'.err = "nil"
                           /\ LifeState(ms') = "Unstarted"
                           /\ ms'.cmd.Path = shellPath
       /\ (AnyStart /\ LifeState(ms) = "Unstarted" /\ ~Launchable(ms.cmd.Path))
            => ret'.err = "StartFailure" /\ child' = child]_vars

\* An instance was made for a path that cannot be launched, and its Start
\* has failed without a child.
C16_Witness ==
    /\ ret = Returned("Start", <<>>, <<>>, "StartFailure")
    /\ ms.made /\ ~ms.cmd.nil /\ ms.cmd.Path = "/nonexistent/shell"
    /\ child.st = "none"

----------------------------------------------------------------------------
\* C13: when Stop is called from another goroutine while an Execute is in
\* progress, no step of either call panics: Stop does not, and no later
\* step of the Execute uses a handle that Stop has set to nil.
C13_StopDuringExecuteIsSafe ==
    [][(epc # "idle" /\ ~crashed)
         => /\ ~crashed'
            /\ (\E osFails \in BOOLEAN : StopDuringExecute(osFails))
                 => ret'.err # "panic"]_vars

----------------------------------------------------------------------------
\* The requests whose Execute is in flight: it has written its command and
\* has not returned.
InFlight == {h \in Requests : web.req[h].pc \in {"drain", "stderr"}}

\* C14: at any time at most one Execute is in flight on the interpreter the
\* web server shares among its run-block requests.
C14_OneExecuteInFlight == Cardinality(InFlight) <= 1

\* The requests that have been answered.
Done == {h \in Requests : web.req[h].pc = "done"}

\* C17 as written: one Execute for every POST unless the shell is absent
\* (500), none for another method (405); the JSON answer carries the stdout
\* and stderr Execute returned unchanged, and an error field exactly when
\* Execute returned an error.
C17_OneExecutePerPostVerbatim ==
    \A h \in Done :
      LET r == web.req[h] IN
        IF r.method # "POST" THEN r.status = 405 /\ r.execs = 0
        ELSE IF web.server = "noshell" THEN r.status = 500 /\ r.execs = 0
        ELSE /\ r.execs = 1
             /\ r.body.stdout = r.out /\ r.body.stderr = r.err
             /\ ("error" \in r.body.fields) <=> (r.execErr # "nil")

\* C17, amended: a POST whose body cannot be read is answered 400 without an
\* Execute; otherwise a POST to a server with a shell makes exactly one
\* Execute and is answered 200 with a JSON object that has the stdout and
\* stderr Execute returned, except that every byte that is not valid UTF-8
\* reads back as U+FFFD, and that has an error field exactly when Execute
\* returned an error.  No request makes more than one Execute.
C17_HandlerAnswers ==
    /\ \A h \in Requests : web.req[h].execs <= 1
    /\ \A h \in InFlight : web.req[h].execs = 1 /\ web.req[h].method = "POST"
    /\ \A h \in Done :
         LET r == web.req[h] IN
           IF r.method # "POST" THEN r.status = 405 /\ r.execs = 0
           ELSE IF web.server = "noshell" THEN r.status = 500 /\ r.execs = 0
           ELSE IF ~r.bodyOk THEN r.status = 400 /\ r.execs = 0
           ELSE /\ r.execs = 1 /\ r.status = 200
                /\ Len(r.body.stdout) = Len(r.out)
                /\ Len(r.body.stderr) = Len(r.err)
                /\ \A i \in 1..Len(r.out) :
                     r.body.stdout[i] = r.out[i]
                       \/ (r.out[i] = BadByte /\ r.body.stdout[i] = ReplacementChar)
                /\ \A i \in 1..Len(r.err) :
                     r.body.stderr[i] = r.err[i]
                       \/ (r.err[i] = BadByte /\ r.body.stderr[i] = ReplacementChar)
                /\ ("error" \in r.body.fields) <=> (r.execErr # "nil")

\* A POST has been answered 200 after one Execute that returned no error
\* and a stdout with a byte that is not UTF-8.
C17_Witness ==
    \E h \in Done :
      /\ web.req[h].method = "POST" /\ web.req[h].execs = 1
      /\ web.req[h].status = 200 /\ web.req[h].execErr = "nil"
      /\ web.req[h].out = <<BadByte>>
      /\ web.req[h].body.stdout = <<ReplacementChar>>
      /\ web.req[h].body.fields = {"stdout", "stderr"}

----------------------------------------------------------------------------
\* Everything the scanner has put on its channel so far, oldest first.
Delivered == recv.items \o chan.q

\* The newline-delimited lines of a text, read off the positions of its
\* line terminators: one line ends at every terminator, and what follows
\* the last terminator is a line too when it is not empty.
NLPositions(text) == {i \in 1..Len(text) : text[i] = NL}
LineStarts(text) ==
    {s \in 1..(Len(text) + 1) :
       (s = 1 \/ (s - 1) \in NLPositions(text)) /\ s <= Len(text)}
LineEnd(text, s) ==
    IF \E i \in NLPositions(text) : i >= s
      THEN (CHOOSE i \in NLPositions(text) :
              i >= s /\ \A j \in NLPositions(text) : j >= s => i <= j) - 1
      ELSE Len(text)
ExpectedLines(text) ==
    [k \in 1..Cardinality(LineStarts(text)) |->
       LET s == CHOOSE t \in LineStarts(text) :
                  Cardinality({u \in LineStarts(text) : u < t}) = k - 1
       IN SubSeq(text, s, LineEnd(text, s))]

IsPrefix(a, b) == Len(a) <= Len(b) /\ SubSeq(b, 1, Len(a)) = a

\* C18: for a source that delivers a finite text and then end-of-stream,
\* what the channel yields is always a prefix of the text's lines, in order;
\* when the channel is closed it has yielded exactly those lines, the
\* unterminated last one included, and none for an empty text.
C18_FiniteSourceYieldsItsLines ==
    src.kind = "finite"
      => /\ IsPrefix(Delivered, ExpectedLines(src.all))
         /\ chan.closes > 0 => Delivered = ExpectedLines(src.all)
         /\ recv.sawClose => recv.items = ExpectedLines(src.all)

\* The consumer has received "a" and "a" from the text "a\na", which has no
\* terminator at its end, and has then found the channel closed.
C18_Witness ==
    /\ src.kind = "finite" /\ src.all = <<"a", NL, "a">>
    /\ recv.sawClose
    /\ recv.items = << <<"a">>, <<"a">> >>

\* C19: for a source whose read does not return within the timeout, nothing
\* is put on the channel before the timeout has elapsed, the only item ever
\* put is the timeout line, and the channel ends up closed with the consumer
\* having received exactly that one item.
C19_StalledSourceTimesOut ==
    /\ [](src.kind = "stalled"
            => /\ Delivered \in {<<>>, <<MsgTimeout>>}
               /\ Delivered # <<>> => scan.clock >= Timeout
               /\ chan.closes > 0 => Delivered = <<MsgTimeout>>)
    /\ (src.kind = "stalled")
         ~> (chan.closes = 1 /\ recv.sawClose /\ recv.items = <<MsgTimeout>>)

\* The stalled source's scan is over: one item, the timeout line, then the
\* channel closed, after the timeout.
C19_Witness ==
    /\ src.kind = "stalled"
    /\ recv.sawClose /\ recv.items = <<MsgTimeout>>
    /\ scan.clock = Timeout /\ scan.outcome = "timeout"

\* C20: for a source whose every read returns zero bytes and no error, the
\* only item ever put on the channel is the malfunction line, put after the
\* second empty read and before the timeout has elapsed; the timeout line
\* is never put; once closed, the channel has yielded exactly that one item.
C20_BustedSourceIsDetected ==
    src.kind = "busted"
      => /\ Delivered \in {<<>>, <<MsgMalfunction>>}
         /\ scan.clock < Timeout /\ scan.outcome # "timeout"
         /\ scan.outcome = "malfunction" => scan.stallCount = 2
         /\ chan.closes > 0 => Delivered = <<MsgMalfunction>>
         /\ recv.sawClose => recv.items = <<MsgMalfunction>>

\* The busted source's scan is over: one item, the malfunction line, then
\* the channel closed, with no time passed.
C20_Witness ==
    /\ src.kind = "busted"
    /\ recv.sawClose /\ recv.items = <<MsgMalfunction>>
    /\ scan.clock = 0 /\ scan.outcome = "malfunction"

----------------------------------------------------------------------------
C22_ChannelEventuallyClosed ==
    (scan.pc # "unstarted") ~> (chan.closes = 1 /\ recv.sawClose)

\* The consumer has found the channel closed while the read of the source
\* is still blocked.
C22_Witness ==
    /\ src.kind = "stalled" /\ src.reading
    /\ recv.sawClose /\ chan.closes = 1

----------------------------------------------------------------------------
\* C29: only consecutive empty reads count as a malfunction. An empty read
\* that does not follow another empty read is tolerated and the scan reads
\* again; an empty read that immediately follows another ends the scan with
\* the malfunction line; a read of data starts the count again; and nothing
\* but an empty read right after an empty read raises the malfunction.
C29_OnlyConsecutiveEmptyReadsCount ==
    [][ /\ (ReadEmpty /\ scan.lastRead # "empty")
             => /\ scan'.outcome = "none" /\ scan'.pc = "read"
                /\ scan'.stallCount = 1
        /\ (ReadEmpty /\ scan.lastRead = "empty")
             => /\ scan'.outcome = "malfunction"
                /\ scan'.pending = <<MsgMalfunction>>
        /\ ReadData => scan'.stallCount = 0
        /\ (scan.outcome # "malfunction" /\ scan'.outcome = "malfunction")
             => /\ scan.lastRead = "empty" /\ scan'.lastRead = "empty"
                /\ scan.stallCount = 1
      ]_vars

\* A source gave data between its empty reads and then two empty reads in a
\* row: the consumer got the line and then the malfunction line.
C29_Witness ==
    /\ src.kind = "hiccup"
    /\ recv.sawClose
    /\ Len(recv.items) = 2
    /\ recv.items[2] = MsgMalfunction
    /\ src.rest # src.all

\* C30: the timeout measures inactivity. After a read of data the clock shows
\* only the time waited in the read that is blocked now, and a source whose
\* reads each return data sooner than the timeout never gets the timeout
\* line, however long the scan lasts.
C30_TimeoutMeasuresInactivity ==
    /\ scan.lastRead = "data" /\ scan.pc = "blocked"
         => scan.clock = src.waited
    /\ src.kind = "slow"
         => /\ scan.outcome # "timeout"
            /\ scan.clock < Timeout
            /\ \A i \in 1..Len(Delivered) : Delivered[i] # MsgTimeout

\* A slow source was scanned to its end: the scan lasted longer than the
\* timeout and the consumer saw the channel closed without a timeout line.
C30_Witness ==
    /\ src.kind = "slow"
    /\ scan.outcome = "eof"
    /\ scan.elapsed > Timeout
    /\ recv.sawClose

----------------------------------------------------------------------------
(* Label lists (internal/loader/labels.go). *)

\* The bound on the length of the label lists.
MaxLabels == 3

\* The labels: the two special ones and an ordinary one.
Labels == {"sleep", "skip", "test"}

\* The label lists of at most MaxLabels labels.
LabelLists == UNION {[1..n -> Labels] : n \in 0..MaxLabels}

\* A faulty Contains: it looks at the first element only.
LabelListContainsFirstOnly(lst, l) == Len(lst) > 0 /\ lst[1] = l

\* lst.Contains(l): some element of lst is l.
LabelListContains(lst, l) == \E i \in 1..Len(lst) : lst[i] = l

\* lst.Equals(other): the lengths are the same and lst contains every element
\* of other.
LabelListEquals(lst, other) ==
    IF Len(lst) # Len(other)
    THEN FALSE
    ELSE \A i \in 1..Len(other) : LabelListContains(lst, other[i])

\* Two lists have been chosen and Equals has not been called yet.
LabelsInit ==
    /\ lab \in {[NoLabels EXCEPT !.lst = a, !.other = b] :
                  a \in LabelLists, b \in LabelLists}
    /\ src = NoSource
    /\ scan = NoScan
    /\ chan = NoChannel
    /\ recv = NothingReceived
    /\ web = NoServer
    /\ ms = NoInstance
    /\ crashed = FALSE
    /\ ret = Returned("none", <<>>, <<>>, "nil")
    /\ epc = "idle"
    /\ ecmd = ""
    /\ stdoutBuf = <<>>
    /\ stderrBuf = <<>>
    /\ child = NoChild
    /\ inPipe = <<>>
    /\ outPipe = <<>>
    /\ errPipe = <<>>
    /\ fds = [stdin |-> FALSE, rd |-> FALSE]
    /\ hist = <<>>

\* The call lst.Equals(other).
CallEquals ==
    /\ ~lab.called
    /\ lab' = [lab EXCEPT !.called = TRUE,
                          !.equals = LabelListEquals(lab.lst, lab.other)]
    /\ UNCHANGED <<shellVars, webVars, scanVars>>

\* The call other.Equals(lst), the same two lists the other way round.
CallEqualsBack ==
    /\ ~lab.calledBack
    /\ lab' = [lab EXCEPT !.calledBack = TRUE,
                          !.equalsBack = LabelListEquals(lab.other, lab.lst)]
    /\ UNCHANGED <<shellVars, webVars, scanVars>>

LabelsNext == CallEquals \/ CallEqualsBack

SpecLabels == LabelsInit /\ [][LabelsNext]_vars

\* How many times label l occurs in lst.
Occurrences(lst, l) == Cardinality({i \in 1..Len(lst) : lst[i] = l})

\* The two lists hold the same labels, each as many times in one as in the
\* other.
SameContents(a, b) == \A l \in Labels : Occurrences(a, l) = Occurrences(b, l)

\* C23: lst.Equals(other) returns true exactly when the two lists have the
\* same labels with the same multiplicities, whatever the order of the
\* elements.
C23_EqualsIsSameContents ==
    lab.called => (lab.equals <=> SameContents(lab.lst, lab.other))

\* C23, what the code does guarantee: lists with the same contents are found
\* equal, lists found equal have the same length and every label of other
\* occurs in lst, and on lists without a repeated label Equals is exactly
\* sameness of contents.
C23_EqualsWithoutRepeats ==
    lab.called =>
      /\ SameContents(lab.lst, lab.other) => lab.equals
      /\ lab.equals
           => /\ Len(lab.lst) = Len(lab.other)
              /\ \A i \in 1..Len(lab.other) :
                   Occurrences(lab.lst, lab.other[i]) > 0
      /\ (\A l \in Labels : Occurrences(lab.other, l) <= 1)
           => (lab.equals <=> SameContents(lab.lst, lab.other))

\* Equals has returned true for two lists in different orders.
C23_Witness ==
    /\ lab.called /\ lab.equals
    /\ lab.lst # lab.other
    /\ Len(lab.lst) = MaxLabels
    /\ SameContents(lab.lst, lab.other)

----------------------------------------------------------------------------
\* C24: once the command has been written, Execute returns a nil error in
\* every case. A stdout reader that ends on end-of-stream or on a read error
\* before the delimiter was seen does not abort the call: Execute goes on to
\* read stderr, and what it returns is the cleaned stdout read so far, the
\* stderr read, and a nil error.
C24_NilErrorOnceWritten ==
    /\ [][/\ (epc = "drain" /\ epc' # "drain" /\ ~Contains(stdoutBuf', delimiter))
               => /\ epc' = "stderr"
                  /\ stdoutBuf' = stdoutBuf
                  /\ UNCHANGED <<ret, crashed, hist>>
          /\ (epc # "idle" /\ epc' = "idle")
               => /\ ret' = Returned("Execute", CleanStdout(stdoutBuf),
                                     stderrBuf, "nil")
                  /\ ~crashed']_vars
    /\ [](epc # "idle" => ~crashed)

\* The shell printed a line and exited before it ran the delimiter echo:
\* Execute has returned the line with a nil error.
C24_Witness ==
    /\ epc = "idle" /\ ret.op = "Execute" /\ ret.err = "nil"
    /\ hist # <<>>
    /\ hist[Len(hist)].cmd = "echo hello; exit"
    /\ ret.stdout = <<"h","e","l","l","o">>
    /\ child.st # "alive"

----------------------------------------------------------------------------
\* C25: every Execute on a Running instance either writes the command line
\* and the delimiter echo line to the child's stdin in one write, before any
\* byte of stdout or stderr is read, or returns WriteFailure with empty
\* stdout and stderr at once, with no reader started and nothing read.
\* Fails on the code: on a Running instance whose stdin field a second Start
\* has set to nil, Execute panics in ms.stdin.Write.
C25_OneWriteOrWriteFailure ==
    [][\A command \in Commands :
         (Execute(command) /\ LifeState(ms) = "Running") =>
            /\ UNCHANGED <<outPipe, errPipe, crashed>>
            /\ \/ /\ inPipe' = inPipe \o <<command, echoCommand>>
                  /\ epc' = "drain"
                  /\ stdoutBuf' = <<>> /\ stderrBuf' = <<>>
                  /\ ret' = ret
               \/ /\ ret' = Returned("Execute", <<>>, <<>>, "WriteFailure")
                  /\ epc' = "idle"
                  /\ inPipe' = inPipe]_vars

----------------------------------------------------------------------------
\* C26: the stdout reader of an Execute has ended when the Execute returns.
\* Bytes are read from the child's stdout, as long as the pipe is open, only
\* by the reader of the Execute in flight; the Execute goes on, and returns,
\* only after its reader has ended; and between the end of the reader and
\* the write of the next Execute nothing reads stdout, whatever is left in
\* the pipe.
C26_ReaderEndsBeforeReturn ==
    [][/\ (Len(outPipe') < Len(outPipe) /\ fds'.rd)
            => (epc = "drain" /\ epc' # "idle")
       /\ stdoutBuf' # stdoutBuf
            => \/ epc = "drain" /\ Len(outPipe') < Len(outPipe)
               \/ stdoutBuf' = <<>>
       /\ (epc # "idle" /\ epc' = "idle") => (epc = "stderr" /\ outPipe' = outPipe)
       /\ (epc = "drain" /\ epc' # "drain") => epc' = "stderr"]_vars

\* An Execute has returned and left bytes in the child's stdout; the child
\* is alive and nothing reads them.
C26_Witness ==
    /\ epc = "idle" /\ ret.op = "Execute" /\ ret.err = "nil"
    /\ hist # <<>>
    /\ outPipe # <<>> /\ fds.rd
    /\ child.st = "alive"

----------------------------------------------------------------------------
\* What the child writes to stdout for the lines it has not read yet.
RECURSIVE OutputOfLines(_)
OutputOfLines(lines) ==
    IF lines = <<>> THEN <<>>
    ELSE ShellRun(lines[1]).out \o OutputOfLines(Tail(lines))

\* The stdout bytes no reader has taken yet: those in the pipe, those of the
\* line the child is at, those of the lines the child will read.
Leftover == outPipe \o child.pendOut \o OutputOfLines(inPipe)

\* The stdout bytes of an Execute: the command's output and the delimiter
\* line of its echo.
StreamOf(command) == OutputOf(command) \o delimiter \o <<NL>>

IsSuffix(s, t) ==
    Len(s) <= Len(t) /\ s = SubSeq(t, Len(t) - Len(s) + 1, Len(t))

\* The first Execute is in flight, on a shell that got no other input, with
\* a command that prints the delimiter itself.
MisFramedFirst ==
    /\ hist = <<>> /\ epc \in {"drain", "stderr"}
    /\ PrintsDelimiter(ecmd)
    /\ child.st = "alive" /\ child.fin # "hang"
    /\ \A i \in 1..Len(inPipe) : ShellRun(inPipe[i]).fin # "hang"

\* C27 as written: when a command prints the delimiter itself, the reader
\* stops at that first occurrence and the delimiter line of the real echo is
\* left in the stream for the next Execute.
C27_RealSentinelIsLeft ==
    (MisFramedFirst /\ epc = "stderr") => Contains(Leftover, delimiter)

\* C27: the delimiter is the same literal for every command, and a command
\* that prints it is mis-framed. The reader ends with the first read after
\* which its buffer contains the delimiter, wherever in the stream that read
\* ends; no byte is lost: the buffer and the bytes left make up the output of
\* the command and its echo; and what the next Execute reads starts where
\* the first one stopped, so the bytes left are read as output of the next
\* command.
C27_MisFramedAtFirstRead ==
    /\ \A command \in Commands :
         FullCommand(command)[2] = "echo \"END_OF_COMMAND_OUTPUT_DELIMITER\""
    /\ (epc = "drain" /\ ~crashed) => ~Contains(stdoutBuf, delimiter)
    /\ MisFramedFirst
         => /\ stdoutBuf \o Leftover = StreamOf(ecmd)
            /\ epc = "stderr" => Contains(stdoutBuf, delimiter)
    /\ (Len(hist) = 1 /\ PrintsDelimiter(hist[1].cmd) /\ epc \in {"drain", "stderr"}
          /\ child.st = "alive" /\ child.fin # "hang")
         => IsSuffix(stdoutBuf \o Leftover,
                     StreamOf(hist[1].cmd) \o StreamOf(ecmd))

\* The call after a mis-framed one has returned the delimiter the first call
\* left behind and nothing of its own output.
C27_Witness ==
    /\ Len(hist) = 2
    /\ PrintsDelimiter(hist[1].cmd)
    /\ hist[2].cmd = "echo hello"
    /\ hist[2].stdout = delimiter
    /\ ret.err = "nil" /\ epc = "idle"

----------------------------------------------------------------------------
\* C28: a Stop of a Running instance closes the input stream, kills the
\* process and then waits for it: afterwards stdin is closed, the child does
\* not run, the wait has released the output pipes and decides what Stop
\* returns by the status of the killed child, also when stdin was closed
\* already or the child was gone already; and a Stop that returns success
\* leaves no process handle and no stream handle. Fails on the code: on a
\* Running instance whose stdin field a second Start has set to nil, Stop
\* panics in ms.stdin.Close() and neither kills nor waits.
C28_StopClosesKillsWaits ==
    [][\A osFails \in BOOLEAN :
         (Stop(osFails) /\ LifeState(ms) = "Running") =>
            /\ ~crashed'
            /\ ~fds'.stdin
            /\ child'.st # "alive"
            /\ ~fds'.rd
            /\ ret'.err = IF WaitError(Killed(child).st, osFails) = "other"
                            THEN "ShutdownFailure" ELSE "nil"
            /\ ret'.err = "nil"
                 => /\ ms'.cmd.nil
                    /\ Handles(ms') = <<FALSE, FALSE, FALSE>>]_vars

----------------------------------------------------------------------------
IsDiagnostic(line) == line \in {MsgTimeout, MsgMalfunction}
Diagnostics == {i \in 1..Len(Delivered) : IsDiagnostic(Delivered[i])}

\* C32: at most one diagnostic line is put on the channel in a scan; it is
\* the last item, put by a scan that ends by timeout or malfunction, the
\* timeout line by the one and the malfunction line by the other; a scan
\* that ends by end-of-stream or by a read error puts none.
C32_OneDiagnosticAtTheEnd ==
    /\ Cardinality(Diagnostics) <= 1
    /\ \A i \in Diagnostics :
         /\ i = Len(Delivered)
         /\ scan.pending = <<>>
         /\ scan.outcome = IF Delivered[i] = MsgTimeout THEN "timeout"
                                                      ELSE "malfunction"
    /\ scan.outcome \in {"eof", "error"} => Diagnostics = {}
    /\ (chan.closes > 0 /\ scan.outcome \in {"timeout", "malfunction"})
         => Diagnostics = {Len(Delivered)}

\* A source gave a line and then a read error: the consumer got the line and
\* found the channel closed, with no diagnostic line.
C32_Witness ==
    /\ src.kind = "broken" /\ scan.outcome = "error"
    /\ recv.sawClose
    /\ recv.items = << <<"a">> >>

----------------------------------------------------------------------------
\* C33: no sequence of Start, Execute and Stop calls, issued one at a time on
\* an instance NewManagedShell returned, panics. Fails on the code: Start
\* after Stop calls StdinPipe on the nil ms.cmd, and a second Start on a
\* Running instance sets ms.stdin to nil, on which the next Execute and the
\* next Stop call Write and Close.
C33_NoCallPanics == ~crashed /\ ret.err # "panic"

----------------------------------------------------------------------------
\* C35: Equals is symmetric: lst.Equals(other) and other.Equals(lst) return
\* the same. Fails on the code: Equals looks for the elements of its argument
\* in its receiver and never the other way round, so [sleep, skip] equals
\* [sleep, sleep] and [sleep, sleep] does not equal [sleep, skip].
C35_EqualsIsSymmetric ==
    (lab.called /\ lab.calledBack) => (lab.equals = lab.equalsBack)

====
